---- MODULE Spec2Model ----
(***************************************************************************)
(* A model of the request/response/error/rate-limit pipeline of the ESI   *)
(* client (src/fleets.go): Client.Do, Client.check, makeError, parseRate   *)
(* and the mutex-guarded Rate record of the Client.                        *)
(*                                                                         *)
(* Callers are goroutines that invoke Client.Do on one shared Client.  Do  *)
(* is cut into steps at the points where another goroutine can interleave: *)
(* the transport exchange, the acquisition of api.mu, the stores of the    *)
(* two fields of api.mu.Rate, and the release of api.mu.                   *)
(***************************************************************************)
EXTENDS Integers, Sequences, FiniteSets, TLC

\* ------------------------------------------------------------------ bounds

\* Number of goroutines that share the Client.
NumCallers == 2

\* Number of Do calls started in one behaviour of the sequential specification.
MaxCalls == 2

\* Number of times the clock behind now() advances.
MaxTicks == 1

Callers == 1..NumCallers

\* The one caller of the sequential specification.
SeqCallers == {1}

\* The instants now() can return, in seconds; 0 is kept for the zero time.Time.
Instants == 1000..(1000 + MaxTicks)

\* ------------------------------------------------------------ pure helpers

\* time.Time{}: the zero instant.
ZeroTime == 0

\* Rate{}: the zero value of the Rate struct.
ZeroRate == [Remaining |-> 0, Reset |-> ZeroTime]

headerErrorRateRemaining == "X-ESI-Error-Limit-Remain"
headerErrorRateReset == "X-ESI-Error-Limit-Reset"

\* textproto.CanonicalMIMEHeaderKey on the names Header.Get is called with.
CanonicalKey(name) ==
    CASE name = "X-ESI-Error-Limit-Remain" -> "X-Esi-Error-Limit-Remain"
      [] name = "X-ESI-Error-Limit-Reset"  -> "X-Esi-Error-Limit-Reset"
      [] name = "warning"                  -> "Warning"
      [] OTHER                             -> name

\* The keys a response's header map is modelled with (canonical form).
HeaderKeys == {"X-Esi-Error-Limit-Remain", "X-Esi-Error-Limit-Reset", "Warning"}

\* http.Header.Get: the value stored under the canonical key, "" (the empty
\* character sequence) when the key is absent.  Header values are sequences
\* of one-character strings.
HeaderGet(h, name) ==
    IF CanonicalKey(name) \in DOMAIN h THEN h[CanonicalKey(name)] ELSE <<>>

DigitChars == <<"0", "1", "2", "3", "4", "5", "6", "7", "8", "9">>

IsDigit(c) == \E i \in 1..10 : DigitChars[i] = c

DigitVal(c) == (CHOOSE i \in 1..10 : DigitChars[i] = c) - 1

RECURSIVE ParseDigits(_, _)
ParseDigits(s, acc) ==
    IF s = <<>> THEN acc
    ELSE ParseDigits(Tail(s), acc * 10 + DigitVal(Head(s)))

\* strconv.Atoi: an optional sign followed by one or more decimal digits;
\* on a syntax error the returned number is 0.  (The header values of the
\* model have at most three characters, far inside the int range, so the
\* range error of Atoi does not arise.)
Atoi(s) ==
    LET signed == s # <<>> /\ Head(s) \in {"-", "+"}
        digits == IF signed THEN Tail(s) ELSE s
        ok     == digits # <<>> /\ \A i \in DOMAIN digits : IsDigit(digits[i])
        n      == IF ok THEN ParseDigits(digits, 0) ELSE 0
    IN  [n |-> IF signed /\ Head(s) = "-" THEN 0 - n ELSE n, ok |-> ok]

\* now().Add(time.Duration(v) * time.Second), instants counted in seconds.
\* (|v| stays below 2^63 / 10^9 for the header values of the model, so the
\* multiplication does not wrap.)
AddSeconds(t, v) == t + v

\* --------------------------------------------------------------- JSON text
\* A body is the byte stream of a response: readErr says that reading it
\* fails before its end, text says what the bytes are: "empty" (no bytes),
\* "invalid" (not JSON), "json" with the value root, or "canceled" (the
\* bytes never come: the context of the exchange was canceled).  A JSON value is a
\* record whose field t names its type; an object holds its members in
\* the order of the text, as <<key, value>> records.

JNull == [t |-> "null"]
JNum(n) == [t |-> "number", n |-> n]
\* A JSON string; at is the instant it denotes when its text is an RFC 3339
\* date-time, and -1 otherwise.
JStr(s) == [t |-> "string", s |-> s, at |-> 0 - 1]
JTime(s, at) == [t |-> "string", s |-> s, at |-> at]
\* A JSON array of strings, each a sequence of characters.
JStrings(elems) == [t |-> "strings", elems |-> elems]
JObj(members) == [t |-> "object", m |-> members]
Member(key, val) == [key |-> key, val |-> val]

EmptyBody == [readErr |-> FALSE, text |-> "empty", root |-> JNull]
BrokenBody == [readErr |-> TRUE, text |-> "json", root |-> JObj(<<Member("error", JStr("some error"))>>)]
TextBody == [readErr |-> FALSE, text |-> "invalid", root |-> JNull]
\* The stream of an exchange whose context was canceled: the next read
\* fails with the error of the context.
CanceledBody == [readErr |-> TRUE, text |-> "canceled", root |-> JNull]
JsonBody(root) == [readErr |-> FALSE, text |-> "json", root |-> root]

\* The letter-case folding encoding/json applies when no field name matches
\* a key exactly, on the keys of the model.
ToLower(key) ==
    CASE key \in {"Error", "ERROR"}  -> "error"
      [] key = "HTTPStatusCode"      -> "httpstatuscode"
      [] key = "Remaining"           -> "remaining"
      [] key = "Reset"               -> "reset"
      [] key = "Response"            -> "response"
      [] key = "StatusCode"          -> "statuscode"
      [] key = "Header"              -> "header"
      [] key = "Err"                 -> "err"
      [] key = "A"                   -> "a"
      [] OTHER                       -> key

\* ------------------------------------------------- decoding into the Error
\* json.Unmarshal(data, e) with e = &Error{Response: r}.  The state st of a
\* decode is the Error under construction and the http.Response r that
\* e.Response points to: encoding/json follows a non-nil pointer and decodes
\* into the struct it points to.

\* One member of a JSON object decoded into the header map of r: the value
\* is stored under the key as written (no canonicalisation); Get reads the
\* first element.
DecodeHeaderMember(h, mem) ==
    IF mem.val.t = "strings" /\ mem.key \in DOMAIN h
    THEN [h EXCEPT ![mem.key] = IF mem.val.elems = <<>> THEN <<>> ELSE mem.val.elems[1]]
    ELSE h

RECURSIVE DecodeHeader(_, _)
DecodeHeader(h, members) ==
    IF members = <<>> THEN h
    ELSE DecodeHeader(DecodeHeaderMember(h, Head(members)), Tail(members))

\* One member of a JSON object decoded into the http.Response r.
DecodeResponseMember(r, mem) ==
    LET f == ToLower(mem.key) IN
    CASE f = "statuscode" /\ mem.val.t = "number" -> [r EXCEPT !.StatusCode = mem.val.n]
      [] f = "header" /\ mem.val.t = "object"     -> [r EXCEPT !.Header = DecodeHeader(r.Header, mem.val.m)]
      [] f = "header" /\ mem.val.t = "null"       -> [r EXCEPT !.Header = [k \in HeaderKeys |-> <<>>]]
      [] OTHER                                    -> r

RECURSIVE DecodeResponse(_, _)
DecodeResponse(r, members) ==
    IF members = <<>> THEN r
    ELSE DecodeResponse(DecodeResponseMember(r, Head(members)), Tail(members))

\* One member of the body's object decoded into the Error.  The fields of
\* Error seen by encoding/json: Response, HTTPStatusCode, Err under the
\* name "error", and Remaining and Reset promoted from the embedded Rate.
\* A value of the wrong type leaves the field as it is (the type error is
\* recorded and decoding goes on).
DecodeErrorMember(st, mem) ==
    LET f == ToLower(mem.key)
        v == mem.val
    IN
    CASE f = "error" /\ v.t = "string" ->
            [st EXCEPT !.e.Err = v.s]
      [] f = "httpstatuscode" /\ v.t = "number" ->
            [st EXCEPT !.e.HTTPStatusCode = v.n]
      [] f = "remaining" /\ v.t = "number" ->
            [st EXCEPT !.e.Rate.Remaining = v.n]
      [] f = "reset" /\ v.t = "string" /\ v.at >= 0 ->
            [st EXCEPT !.e.Rate.Reset = v.at]
      [] f = "response" /\ v.t = "null" ->
            [st EXCEPT !.e.Response = "nil"]
      [] f = "response" /\ v.t = "object" ->
            IF st.e.Response = "r"
            THEN [st EXCEPT !.r = DecodeResponse(st.r, v.m)]
            ELSE [st EXCEPT !.e.Response = "new"]
      [] OTHER -> st

RECURSIVE DecodeError(_, _)
DecodeError(st, members) ==
    IF members = <<>> THEN st
    ELSE DecodeError(DecodeErrorMember(st, Head(members)), Tail(members))

\* json.Unmarshal(data, e): the whole text is validated first, so invalid
\* text changes nothing; a root that is not an object changes nothing.
UnmarshalError(data, st) ==
    IF data.text = "json" /\ data.root.t = "object"
    THEN DecodeError(st, data.root.m)
    ELSE st

\* ------------------------------------------------------ Error Classifier

\* parseRate: the Rate read from the headers of r at instant nowT.
parseRate(r, nowT) ==
    LET remaining == HeaderGet(r.Header, headerErrorRateRemaining)
        reset     == HeaderGet(r.Header, headerErrorRateReset)
        v         == Atoi(reset).n
    IN  [Remaining |-> IF remaining # <<>> THEN Atoi(remaining).n ELSE 0,
         Reset     |-> IF reset # <<>> /\ v # 0 THEN AddSeconds(nowT, v) ELSE ZeroTime]

\* makeError that decodes the bytes it got although the read failed.
makeErrorIgnoringReadError(r, nowT) ==
    LET e0 == [Response |-> "r", HTTPStatusCode |-> 0, Err |-> "", Rate |-> ZeroRate]
        st == UnmarshalError(r.Body, [e |-> e0, r |-> r])
    IN  [e |-> [st.e EXCEPT !.HTTPStatusCode = st.r.StatusCode,
                            !.Rate = parseRate(st.r, nowT)],
         r |-> st.r]

\* makeError: the Error built from r at instant nowT, and r as the decode
\* of the body has left it.  ioutil.ReadAll consumes the body; the body is
\* decoded only when the read did not fail.
makeError(r, nowT) ==
    LET e0 == [Response |-> "r", HTTPStatusCode |-> 0, Err |-> "", Rate |-> ZeroRate]
        st == IF ~r.Body.readErr
              THEN UnmarshalError(r.Body, [e |-> e0, r |-> r])
              ELSE [e |-> e0, r |-> r]
    IN  [e |-> [st.e EXCEPT !.HTTPStatusCode = st.r.StatusCode,
                            !.Rate = parseRate(st.r, nowT)],
         r |-> st.r]

\* IsSuccess with the upper edge of the range excluded.
IsSuccessBelow299(rc) == 200 =< rc /\ rc < 299

\* The status test of Client.check.
IsSuccess(rc) == 200 =< rc /\ rc =< 299

\* ----------------------------------------------------------------- inputs

\* Status codes a server answers with, around the edges of [200,299].
StatusCodes == {199, 200, 299, 300, 400}

\* The headers of a response, as <<remaining, reset, warning>>: all absent;
\* the rate numbers of the tests; neither a number; a reset delay of zero;
\* a deprecation warning.
HeaderTriples ==
    {<< <<>>, <<>>, <<>> >>,
     << <<"6", "0">>, <<"4", "2">>, <<>> >>,
     << <<"a", "b", "c">>, <<"4", "x">>, <<>> >>,
     << <<"7">>, <<"0">>, <<>> >>,
     << <<>>, <<>>, <<"2", "9", "9">> >>}

MakeHeader(triple) ==
    [k \in HeaderKeys |->
        CASE k = "X-Esi-Error-Limit-Remain" -> triple[1]
          [] k = "X-Esi-Error-Limit-Reset"  -> triple[2]
          [] OTHER                          -> triple[3]]

Headers == {MakeHeader(triple) : triple \in HeaderTriples}

\* Response bodies: no bytes; a stream that breaks; text that is not JSON;
\* the documented error shape; the same with another letter case of the
\* key; a non-string message; a non-object; objects whose keys name the
\* other fields of Error; the body of a successful answer.
Bodies ==
    {EmptyBody, BrokenBody, TextBody,
     JsonBody(JObj(<<Member("error", JStr("some error"))>>)),
     JsonBody(JObj(<<Member("Error", JStr("some error"))>>)),
     JsonBody(JObj(<<Member("error", JNum(5))>>)),
     JsonBody(JStrings(<<>>)),
     JsonBody(JObj(<<Member("HTTPStatusCode", JNum(200)), Member("Remaining", JNum(3)),
                     Member("Reset", JTime("2018-01-01T18:00:00Z", 1000))>>)),
     JsonBody(JObj(<<Member("Response", JObj(<<Member("StatusCode", JNum(200))>>))>>)),
     JsonBody(JObj(<<Member("Response",
        JObj(<<Member("Header", JObj(<<Member("X-Esi-Error-Limit-Remain", JStrings(<<<<"9">>>>))>>))>>))>>)),
     JsonBody(JObj(<<Member("Response", JNull), Member("error", JStr("some error"))>>)),
     JsonBody(JObj(<<Member("A", JStr("a"))>>))}

Responses ==
    {[StatusCode |-> sc, Header |-> h, Body |-> b, closes |-> 0, terr |-> ""] :
        sc \in StatusCodes, h \in Headers, b \in Bodies}

\* The responses of the concurrent specification: two failures with
\* different rate headers, and a success.
ConcResponses ==
    {r \in Responses :
        /\ r.Body = JsonBody(JObj(<<Member("error", JStr("some error"))>>))
        /\ \/ r.StatusCode = 400 /\ HeaderGet(r.Header, headerErrorRateRemaining) = <<"6", "0">>
                                  /\ HeaderGet(r.Header, headerErrorRateReset) = <<"4", "2">>
           \/ r.StatusCode = 300 /\ HeaderGet(r.Header, headerErrorRateRemaining) = <<"7">>
                                  /\ HeaderGet(r.Header, headerErrorRateReset) = <<"0">>
           \/ r.StatusCode = 200 /\ HeaderGet(r.Header, headerErrorRateRemaining) = <<"6", "0">>
                                  /\ HeaderGet(r.Header, headerErrorRateReset) = <<"4", "2">>}

\* Errors of the transport (api.client.Do): no response was obtained.
TransportErrors == {"dial tcp: connection refused", "http: nil Request.URL", "context canceled"}

\* The destination v of Do: nil, an io.Writer, or a pointer to a struct
\* with one string field A (the foo of the tests) holding a.
NilDest == [kind |-> "nil", A |-> "", sink |-> <<>>]
WriterDest == [kind |-> "writer", A |-> "", sink |-> <<>>]
TargetDest(a) == [kind |-> "target", A |-> a, sink |-> <<>>]
Dests == {NilDest, WriterDest, TargetDest("old")}

\* -------------------------------------------------------- Request Builder
\* The text of a URL is a sequence of lexical tokens: a scheme with its
\* colon ("https:"), the authority marker "//", the path separator "/", a
\* colon with nothing before it (":"), a percent sign that starts no escape
\* ("%"), and names (a host, a path segment, "." or "..").  A parsed URL
\* has the fields Scheme, Host and Path of url.URL; Path is kept as tokens.

SchemeTokens == {"https:", "http:"}

SchemeOf(tok) == IF tok = "https:" THEN "https" ELSE "http"

SchemeToken(scheme) == IF scheme = "https" THEN "https:" ELSE "http:"

NoURL == [Scheme |-> "", Host |-> "", Path |-> <<>>]

\* url.Parse: the error, and the URL when there is none.  The texts of the
\* model have "//" after every scheme, so no opaque URL arises.
ParseURL(text) ==
    LET hasScheme   == text # <<>> /\ Head(text) \in SchemeTokens
        rest        == IF hasScheme THEN Tail(text) ELSE text
        afterMarker == IF rest # <<>> THEN Tail(rest) ELSE <<>>
        hasAuth     == /\ rest # <<>> /\ Head(rest) = "//"
                       /\ (hasScheme \/ afterMarker = <<>> \/ Head(afterMarker) # "/")
        host        == IF hasAuth /\ afterMarker # <<>> /\ Head(afterMarker) # "/"
                       THEN Head(afterMarker) ELSE ""
        path        == IF ~hasAuth THEN rest
                       ELSE IF host # "" THEN Tail(afterMarker) ELSE afterMarker
    IN  CASE text # <<>> /\ Head(text) = ":" ->
                [err |-> "*url.Error: missing protocol scheme", url |-> NoURL]
          [] (text = <<>> \/ Head(text) # ":") /\ (\E i \in DOMAIN text : text[i] = "%") ->
                [err |-> "*url.Error: invalid URL escape", url |-> NoURL]
          [] OTHER ->
                [err |-> "nil",
                 url |-> [Scheme |-> IF hasScheme THEN SchemeOf(Head(text)) ELSE "",
                          Host |-> host, Path |-> path]]

\* base[:strings.LastIndex(base, "/")+1]
RECURSIVE UpToLastSlash(_)
UpToLastSlash(path) ==
    IF path = <<>> \/ path[Len(path)] = "/" THEN path
    ELSE UpToLastSlash(SubSeq(path, 1, Len(path) - 1))

\* The elements strings.Cut(remaining, "/") yields one after the other;
\* cur is the element being read.
RECURSIVE Split(_, _)
Split(path, cur) ==
    IF path = <<>> THEN <<cur>>
    ELSE IF Head(path) = "/" THEN <<cur>> \o Split(Tail(path), "")
    ELSE Split(Tail(path), Head(path))

\* The loop of resolvePath.  kept holds the elements written after the
\* leading "/", joined by "/"; it is empty exactly while first is true.
RECURSIVE RemoveDots(_, _)
RemoveDots(elems, kept) ==
    IF elems = <<>> THEN kept
    ELSE LET elem == Head(elems)
             k == CASE elem = "."  -> IF kept = <<>> THEN <<"">> ELSE kept
                    [] elem = ".." -> IF Len(kept) =< 1 THEN <<>>
                                      ELSE SubSeq(kept, 1, Len(kept) - 1)
                    [] OTHER       -> Append(kept, elem)
         IN  RemoveDots(Tail(elems), k)

\* The elements joined by "/", as tokens.
RECURSIVE Join(_)
Join(elems) ==
    IF elems = <<>> THEN <<>>
    ELSE (IF Head(elems) = "" THEN <<>> ELSE <<Head(elems)>>)
         \o (IF Len(elems) > 1 THEN <<"/">> \o Join(Tail(elems)) ELSE <<>>)

\* resolvePath of net/url: ref resolved against base, dot segments removed.
resolvePath(base, ref) ==
    LET full == IF ref = <<>> THEN base
                ELSE IF Head(ref) # "/" THEN UpToLastSlash(base) \o ref
                ELSE ref
        elems == Split(full, "")
        last  == elems[Len(elems)]
        r     == <<"/">> \o Join(RemoveDots(elems, <<>>))
                 \o (IF last \in {".", ".."} THEN <<"/">> ELSE <<>>)
    IN  IF full = <<>> THEN <<>>
        ELSE IF Len(r) > 1 /\ r[2] = "/" THEN Tail(r)
        ELSE r

\* (*url.URL).ResolveReference, RFC 3986 section 5.2: a reference with a
\* scheme, or with an authority, replaces the host of u.
ResolveReference(u, ref) ==
    CASE ref.Scheme # "" ->
            [Scheme |-> ref.Scheme, Host |-> ref.Host, Path |-> resolvePath(ref.Path, <<>>)]
      [] ref.Scheme = "" /\ ref.Host # "" ->
            [Scheme |-> u.Scheme, Host |-> ref.Host, Path |-> resolvePath(ref.Path, <<>>)]
      [] OTHER ->
            [Scheme |-> u.Scheme, Host |-> u.Host, Path |-> resolvePath(u.Path, ref.Path)]

\* (*url.URL).String
URLString(u) ==
    (IF u.Scheme # "" THEN <<SchemeToken(u.Scheme)>> ELSE <<>>)
    \o (IF (u.Scheme # "" \/ u.Host # "") /\ (u.Host # "" \/ u.Path # <<>>)
        THEN <<"//">> ELSE <<>>)
    \o (IF u.Host # "" THEN <<u.Host>> ELSE <<>>)
    \o (IF u.Path # <<>> /\ Head(u.Path) # "/" /\ u.Host # "" THEN <<"/">> ELSE <<>>)
    \o u.Path

\* HTTP methods, as sequences of characters.
GET == <<"G", "E", "T">>
PUT == <<"P", "U", "T">>
DELETE == <<"D", "E", "L", "E", "T", "E">>

\* The token characters of RFC 7230 that the methods of the model use.
IsTokenChar(c) ==
    c \in {"A", "B", "C", "D", "E", "F", "G", "H", "I", "J", "K", "L", "M",
           "N", "O", "P", "Q", "R", "S", "T", "U", "V", "W", "X", "Y", "Z"}

\* validMethod of net/http that accepts every method.
ValidMethodAlways(method) == TRUE

\* validMethod of net/http: one or more token characters.
ValidMethod(method) ==
    method # <<>> /\ \A i \in DOMAIN method : IsTokenChar(method[i])

\* The body values handed to NewRequest: nil, a struct with one string
\* field set (its JSON key and its value), the struct with the field Name
\* tagged "name", and a struct holding a map[interface{}]interface{}.
NilBody == [kind |-> "nil", key |-> "", val |-> ""]
StructBody(key, val) == [kind |-> "struct", key |-> key, val |-> val]
NameBody(name) == StructBody("name", name)
MapBody == [kind |-> "map", key |-> "", val |-> ""]

\* json.NewEncoder(buf).Encode(body)
Encode(body) ==
    IF body.kind = "map"
    THEN [err |-> "*json.UnsupportedTypeError", text |-> JNull]
    ELSE [err |-> "nil", text |-> JObj(<<Member(body.key, JStr(body.val))>>)]

DefaultUserAgent == "corpus.space/esi"

\* The nil *http.Request.
NilRequest == [isNil |-> TRUE, Method |-> <<>>, URL |-> NoURL, Body |-> JNull, Header |-> {}]

\* Client.NewRequest: the request and the error returned.  a is the Client.
NewRequest(a, method, url, body) ==
    LET ref  == ParseURL(url)
        u    == ResolveReference(a.BaseURL, ref.url)
        enc  == Encode(body)
        m    == IF method = <<>> THEN GET ELSE method
        made == ParseURL(URLString(u))
    IN  CASE ref.err # "nil" ->
                [req |-> NilRequest, err |-> ref.err]
          [] ref.err = "nil" /\ body.kind # "nil" /\ enc.err # "nil" ->
                [req |-> NilRequest, err |-> enc.err]
          [] ref.err = "nil" /\ (body.kind = "nil" \/ enc.err = "nil") /\ ~ValidMethod(m) ->
                [req |-> NilRequest, err |-> "net/http: invalid method"]
          [] ref.err = "nil" /\ (body.kind = "nil" \/ enc.err = "nil") /\ ValidMethod(m)
                /\ made.err # "nil" ->
                [req |-> NilRequest, err |-> made.err]
          [] OTHER ->
                [req |-> [isNil |-> FALSE, Method |-> m, URL |-> made.url,
                          Body |-> IF body.kind # "nil" THEN enc.text ELSE JNull,
                          Header |-> (IF body.kind # "nil"
                                      THEN {<<"Content-Type", "application/json">>} ELSE {})
                                     \cup {<<"Accept", "application/json">>}
                                     \cup (IF a.UserAgent # ""
                                           THEN {<<"User-Agent", a.UserAgent>>} ELSE {})],
                 err |-> "nil"]

DefaultBaseURL == <<"https:", "//", "esi.evetech.net", "/">>

\* The base URL of the tests: a server of httptest with the path /esi/.
TestBaseURL == <<"http:", "//", "127.0.0.1", "/", "esi", "/">>

\* NewClient: the configuration of a new Client.
NewClient == [BaseURL |-> ParseURL(DefaultBaseURL).url, UserAgent |-> DefaultUserAgent]

\* The Clients of the model: a new one, the one of the tests, and one whose
\* UserAgent was cleared.
Clients ==
    {NewClient,
     [NewClient EXCEPT !.BaseURL = ParseURL(TestBaseURL).url],
     [NewClient EXCEPT !.UserAgent = ""]}

\* The url arguments of NewRequest: the relative paths of the endpoints and
\* of the tests, references that climb out of the base path, malformed
\* texts, and references that carry a host of their own.
URLTexts ==
    {<<"v1", "/", "fleets", "/", "42", "/">>,
     <<".">>,
     <<>>,
     <<"/", "foo">>,
     <<"..", "/", "x">>,
     <<":">>,
     <<"invalid", "%">>,
     <<"https:", "//", "esi.evetech.net", "/", "v1", "/">>,
     <<"http:", "//", "other.example", "/", "x">>,
     <<"//", "other.example", "/", "x">>}

\* The method arguments of NewRequest; the last is "INVALID METHOD" cut short.
Methods == {GET, PUT, DELETE, <<>>, <<"I", "N", " ", "M">>}

RequestBodies == {NilBody, NameBody("pascal"), MapBody}

\* ----------------------------------------------------- Fleets endpoints

\* Largest fleet, member, squad and wing id of the model.
MaxID == 2

IDs == 1..MaxID

\* fmt.Sprintf("v1/fleets/%d/", fid)
FleetPath(fid) == <<"v1", "/", "fleets", "/", ToString(fid), "/">>

\* fmt.Sprintf("v1/fleets/%d/members/%d/", fid, cid)
MemberPath(fid, cid) == FleetPath(fid) \o <<"members", "/", ToString(cid), "/">>

\* fmt.Sprintf("v1/fleets/%d/squads/%d/", fid, sid)
SquadPath(fid, sid) == FleetPath(fid) \o <<"squads", "/", ToString(sid), "/">>

\* fmt.Sprintf("v1/fleets/%d/wings/%d/", fid, wid)
WingPath(fid, wid) == FleetPath(fid) \o <<"wings", "/", ToString(wid), "/">>

\* ------------------------------------------------------------- Timestamp
\* A JSON text handed to json.Unmarshal is a sequence of characters.  An
\* instant is a record of the fields of its date-time text.

ZeroTimestamp ==
    [year |-> 1, month |-> 1, day |-> 1, hour |-> 0, min |-> 0, sec |-> 0, zone |-> 0]

\* daysIn of package time.
DaysIn(month, year) ==
    CASE month \in {4, 6, 9, 11} -> 30
      [] month = 2 -> IF year % 4 = 0 /\ (year % 100 # 0 \/ year % 400 = 0) THEN 29 ELSE 28
      [] OTHER -> 31

\* The number written in the characters from..to of s.
Field(s, from, to) == ParseDigits(SubSeq(s, from, to), 0)

\* time.Parse(time.RFC3339, s) on texts without fractional seconds:
\* "2006-01-02T15:04:05" followed by "Z" or by an offset "+07:00".
TimeParse(s) ==
    LET digitsAt(ps) == \A i \in ps : IsDigit(s[i])
        shape == /\ Len(s) \in {20, 25}
                 /\ digitsAt({1, 2, 3, 4, 6, 7, 9, 10, 12, 13, 15, 16, 18, 19})
                 /\ s[5] = "-" /\ s[8] = "-" /\ s[11] = "T" /\ s[14] = ":" /\ s[17] = ":"
                 /\ IF Len(s) = 20 THEN s[20] = "Z"
                    ELSE /\ s[20] \in {"+", "-"} /\ digitsAt({21, 22, 24, 25}) /\ s[23] = ":"
                         /\ Field(s, 21, 22) =< 23 /\ Field(s, 24, 25) =< 59
        range == /\ Field(s, 6, 7) \in 1..12
                 /\ Field(s, 9, 10) \in 1..DaysIn(Field(s, 6, 7), Field(s, 1, 4))
                 /\ Field(s, 12, 13) =< 23 /\ Field(s, 15, 16) =< 59 /\ Field(s, 18, 19) =< 59
        offset == IF Len(s) = 20 THEN 0
                  ELSE (IF s[20] = "-" THEN 0 - 1 ELSE 1)
                       * (Field(s, 21, 22) * 60 + Field(s, 24, 25))
    IN  IF shape /\ range
        THEN [err |-> "nil",
              t |-> [year |-> Field(s, 1, 4), month |-> Field(s, 6, 7), day |-> Field(s, 9, 10),
                     hour |-> Field(s, 12, 13), min |-> Field(s, 15, 16),
                     sec |-> Field(s, 18, 19), zone |-> offset]]
        ELSE [err |-> "*time.ParseError", t |-> ZeroTimestamp]

\* Timestamp.UnmarshalJSON: the Timestamp after the call and the error
\* returned.  s[1 : len(s)-1] panics when the text has a single byte.
UnmarshalJSON(t, b) ==
    IF 1 > Len(b) - 1
    THEN [t |-> t, err |-> "panic: slice bounds out of range"]
    ELSE LET parsed == TimeParse(SubSeq(b, 2, Len(b) - 1)) IN
         IF parsed.err # "nil" THEN [t |-> t, err |-> parsed.err]
         ELSE [t |-> parsed.t, err |-> "nil"]

Quote == "\""

\* The scanner of encoding/json on the texts of the model: the literals,
\* unsigned integers, and strings without escapes.
IsJSONText(b) ==
    \/ b \in {<<"n", "u", "l", "l">>, <<"t", "r", "u", "e">>, <<"f", "a", "l", "s", "e">>}
    \/ /\ b # <<>>
       /\ \A i \in DOMAIN b : IsDigit(b[i])
       /\ (Len(b) > 1 => b[1] # "0")
    \/ /\ Len(b) >= 2
       /\ b[1] = Quote /\ b[Len(b)] = Quote
       /\ \A i \in 2..(Len(b) - 1) : b[i] \notin {Quote, "\\"}

\* json.Unmarshal(data, &ts) with ts a Timestamp: the text is validated,
\* then the value, whatever its type, is handed to ts.UnmarshalJSON.
UnmarshalTimestamp(t, data) ==
    IF ~IsJSONText(data) THEN [t |-> t, err |-> "*json.SyntaxError"]
    ELSE UnmarshalJSON(t, data)

\* The texts decoded into a Timestamp: two date-times in the fixed format,
\* one with a month out of range, a string in another format, the empty
\* string, numbers of four, two and one digits, the literals, texts that
\* are not JSON, a day out of range, a leap day, and a date without time.
TimestampTexts ==
    {<<Quote, "2", "0", "1", "8", "-", "0", "1", "-", "0", "1", "T",
       "1", "8", ":", "0", "0", ":", "0", "0", "Z", Quote>>,
     <<Quote, "2", "0", "0", "6", "-", "0", "1", "-", "0", "2", "T",
       "1", "5", ":", "0", "4", ":", "0", "5", "+", "0", "7", ":", "0", "0", Quote>>,
     <<Quote, "2", "0", "1", "8", "-", "1", "3", "-", "0", "1", "T",
       "1", "8", ":", "0", "0", ":", "0", "0", "Z", Quote>>,
     <<Quote, "M", "o", "n", ",", " ", "0", "2", " ", "J", "a", "n", Quote>>,
     <<Quote, Quote>>,
     <<"2", "0", "1", "8">>,
     <<"4", "2">>,
     <<"5">>,
     <<"n", "u", "l", "l">>,
     <<"t", "r", "u", "e">>,
     <<"f", "a", "l", "s", "e">>,
     <<"i", "n", "v", "a", "l", "i", "d", " ", "j", "s", "o", "n">>,
     <<Quote, "2", "0", "1", "8">>,
     <<Quote, "2", "0", "1", "8", "-", "0", "2", "-", "3", "0", "T",
       "1", "8", ":", "0", "0", ":", "0", "0", "Z", Quote>>,
     <<Quote, "2", "0", "1", "6", "-", "0", "2", "-", "2", "9", "T",
       "2", "3", ":", "5", "9", ":", "5", "9", "Z", Quote>>,
     <<Quote, "2", "0", "1", "8", "-", "0", "1", "-", "0", "1", Quote>>,
     <<"0">>,
     <<"-">>}

\* The values a Timestamp holds before the decode.
Timestamps ==
    {ZeroTimestamp, [ZeroTimestamp EXCEPT !.year = 2018], [ZeroTimestamp EXCEPT !.year = 2006]}

\* ------------------------------------------------------------------ state

VARIABLES
    api,    \* the Client's configuration: BaseURL and UserAgent
    stamp,  \* a Timestamp, the JSON text decoded into it, and the error of the decode
    req,    \* per caller: its last NewRequest call: the arguments and what it returned
    ctx,    \* per caller: the context passed to Do: "live" or "canceled"
    logger, \* api.Logging.Error: "nil" or a logger of the caller's
    logs,   \* the lines written to the standard logger and to api.Logging.Error
    rate,   \* api.mu.Rate
    mu,     \* api.mu: the caller holding the mutex, 0 when unlocked
    clock,  \* the instant now() returns
    calls,  \* number of Do calls started
    pc,     \* per caller: where its Do call stands
    arg,    \* per caller: the destination v as passed to Do
    dst,    \* per caller: the destination as it stands
    before, \* per caller: api.mu.Rate as it was when Do was called
    wire,   \* per caller: what the transport returned: a response, or the error terr
    resp,   \* per caller: resp, the *http.Response, as it stands
    err,    \* per caller: the *Error of line 516, with the instant it was built
    ret     \* per caller: what Do returned

vars == <<api, stamp, req, ctx, logger, logs, rate, mu, clock, calls, pc, arg, dst, before, wire, resp, err, ret>>

NoResponse ==
    [StatusCode |-> 0, Header |-> [k \in HeaderKeys |-> <<>>], Body |-> EmptyBody,
     closes |-> 0, terr |-> ""]
NoError == [Response |-> "nil", HTTPStatusCode |-> 0, Err |-> "", Rate |-> ZeroRate, at |-> 0]
NoReturn == [resp |-> "none", err |-> "none"]
NoCall ==
    [op |-> "none", fid |-> 0, id |-> 0, method |-> <<>>, url |-> <<>>, body |-> NilBody,
     req |-> NilRequest, err |-> "none"]
NoStamp == [data |-> <<>>, t0 |-> ZeroTimestamp, t |-> ZeroTimestamp, err |-> "none"]

Init ==
    /\ api = NewClient
    /\ stamp = NoStamp
    /\ req = [p \in Callers |-> NoCall]
    /\ ctx = [p \in Callers |-> "live"]
    /\ logger \in {"nil", "custom"}
    /\ logs = [std |-> <<>>, custom |-> <<>>]
    /\ rate = ZeroRate
    /\ mu = 0
    /\ clock = 1000
    /\ calls = 0
    /\ pc = [p \in Callers |-> "idle"]
    /\ arg = [p \in Callers |-> NilDest]
    /\ dst = [p \in Callers |-> NilDest]
    /\ before = [p \in Callers |-> ZeroRate]
    /\ wire = [p \in Callers |-> NoResponse]
    /\ resp = [p \in Callers |-> NoResponse]
    /\ err = [p \in Callers |-> NoError]
    /\ ret = [p \in Callers |-> NoReturn]

\* ------------------------------------------------------------- Client.Do

\* A goroutine calls api.Do(ctx, req, v) with destination d.
Call(p, d) ==
    /\ pc[p] = "idle"
    /\ calls < MaxCalls
    /\ calls' = calls + 1
    /\ pc' = [pc EXCEPT ![p] = "send"]
    /\ arg' = [arg EXCEPT ![p] = d]
    /\ dst' = [dst EXCEPT ![p] = d]
    /\ before' = [before EXCEPT ![p] = rate]
    /\ UNCHANGED <<api, stamp, req, ctx, logger, logs, rate, mu, clock, wire, resp, err, ret>>

\* TransportFail that also records an empty snapshot as the Rate State.
TransportFailClearsRate(p, terr) ==
    /\ pc[p] = "send"
    /\ pc' = [pc EXCEPT ![p] = "done"]
    /\ wire' = [wire EXCEPT ![p] = [NoResponse EXCEPT !.terr = terr]]
    /\ ret' = [ret EXCEPT ![p] = [resp |-> "nil", err |-> terr]]
    /\ rate' = ZeroRate
    /\ UNCHANGED <<api, stamp, req, ctx, logger, logs, mu, clock, calls, arg, dst, before, resp, err>>

\* api.client.Do(req) fails with terr: Do returns nil and terr.
TransportFail(p, terr) ==
    /\ pc[p] = "send"
    /\ pc' = [pc EXCEPT ![p] = "done"]
    /\ wire' = [wire EXCEPT ![p] = [NoResponse EXCEPT !.terr = terr]]
    /\ ret' = [ret EXCEPT ![p] = [resp |-> "nil", err |-> terr]]
    /\ UNCHANGED <<api, stamp, req, ctx, logger, logs, rate, mu, clock, calls, arg, dst, before, resp, err>>

\* api.client.Do(req) returns the response r; the close of its body is
\* deferred and the response is wrapped.
TransportRespond(p, r) ==
    /\ pc[p] = "send"
    /\ pc' = [pc EXCEPT ![p] = "check"]
    /\ wire' = [wire EXCEPT ![p] = r]
    /\ resp' = [resp EXCEPT ![p] = r]
    /\ UNCHANGED <<api, stamp, req, ctx, logger, logs, rate, mu, clock, calls, arg, dst, before, err, ret>>

\* logf that writes to the standard logger whatever logger it is given.
logfToStandard(lg, out, line) == [out EXCEPT !.std = Append(@, line)]

\* logf: the line goes to the given logger, or to the standard logger of
\* the log package when that is nil.
logf(lg, out, line) ==
    IF lg # "nil"
    THEN [out EXCEPT !.custom = Append(@, line)]
    ELSE [out EXCEPT !.std = Append(@, line)]

\* api.check(resp): for a status in [200,299] a warning header is logged
\* and the result is nil; otherwise the result is makeError(resp).
Check(p) ==
    /\ pc[p] = "check"
    /\ IF IsSuccess(resp[p].StatusCode)
       THEN /\ pc' = [pc EXCEPT ![p] = "body"]
            /\ logs' = IF HeaderGet(resp[p].Header, "warning") # <<>>
                       THEN logf(logger, logs, HeaderGet(resp[p].Header, "warning"))
                       ELSE logs
            /\ UNCHANGED <<resp, err>>
       ELSE LET made == makeError(resp[p], clock) IN
            /\ pc' = [pc EXCEPT ![p] = "lock"]
            /\ resp' = [resp EXCEPT ![p] = made.r]
            /\ err' = [err EXCEPT ![p] =
                    [Response |-> made.e.Response, HTTPStatusCode |-> made.e.HTTPStatusCode,
                     Err |-> made.e.Err, Rate |-> made.e.Rate, at |-> clock]]
            /\ UNCHANGED logs
    /\ UNCHANGED <<api, stamp, req, ctx, logger, rate, mu, clock, calls, arg, dst, before, wire, ret>>

\* Lock that does not wait for the holder of the mutex.
LockWithoutWaiting(p) ==
    /\ pc[p] = "lock"
    /\ mu' = p
    /\ pc' = [pc EXCEPT ![p] = "store"]
    /\ UNCHANGED <<api, stamp, req, ctx, logger, logs, rate, clock, calls, arg, dst, before, wire, resp, err, ret>>

\* api.mu.Lock(): blocks while another goroutine holds the mutex.
Lock(p) ==
    /\ pc[p] = "lock"
    /\ mu = 0
    /\ mu' = p
    /\ pc' = [pc EXCEPT ![p] = "store"]
    /\ UNCHANGED <<api, stamp, req, ctx, logger, logs, rate, clock, calls, arg, dst, before, wire, resp, err, ret>>

\* StoreRemaining that keeps a Rate State that was already written.
StoreRemainingIfUnset(p) ==
    /\ pc[p] = "store"
    /\ rate' = IF rate = ZeroRate THEN [rate EXCEPT !.Remaining = err[p].Rate.Remaining] ELSE rate
    /\ pc' = [pc EXCEPT ![p] = "store2"]
    /\ UNCHANGED <<api, stamp, req, ctx, logger, logs, mu, clock, calls, arg, dst, before, wire, resp, err, ret>>

\* api.mu.Rate = err.(*Error).Rate: the copy of a two-field struct, one
\* field at a time.
StoreRemaining(p) ==
    /\ pc[p] = "store"
    /\ rate' = [rate EXCEPT !.Remaining = err[p].Rate.Remaining]
    /\ pc' = [pc EXCEPT ![p] = "store2"]
    /\ UNCHANGED <<api, stamp, req, ctx, logger, logs, mu, clock, calls, arg, dst, before, wire, resp, err, ret>>

\* StoreReset that leaves the Reset field as it was.
StoreResetSkipped(p) ==
    /\ pc[p] = "store2"
    /\ pc' = [pc EXCEPT ![p] = "unlock"]
    /\ UNCHANGED <<api, stamp, req, ctx, logger, logs, rate, mu, clock, calls, arg, dst, before, wire, resp, err, ret>>

StoreReset(p) ==
    /\ pc[p] = "store2"
    /\ rate' = [rate EXCEPT !.Reset = err[p].Rate.Reset]
    /\ pc' = [pc EXCEPT ![p] = "unlock"]
    /\ UNCHANGED <<api, stamp, req, ctx, logger, logs, mu, clock, calls, arg, dst, before, wire, resp, err, ret>>

\* A return that leaves the body open.
ClosedNever(r) == r

\* defer resp.Body.Close(): the body of r is closed when Do returns.
Closed(r) == [r EXCEPT !.closes = @ + 1]

\* api.mu.Unlock(); return response, err; the deferred Close runs.
Unlock(p) ==
    /\ pc[p] = "unlock"
    /\ mu' = 0
    /\ pc' = [pc EXCEPT ![p] = "done"]
    /\ ret' = [ret EXCEPT ![p] = [resp |-> "response", err |-> "*Error"]]
    /\ resp' = [resp EXCEPT ![p] = Closed(@)]
    /\ UNCHANGED <<api, stamp, req, ctx, logger, logs, rate, clock, calls, arg, dst, before, wire, err>>

\* The members of a JSON object decoded into the destination struct.
RECURSIVE DecodeTarget(_, _)
DecodeTarget(t, members) ==
    IF members = <<>> THEN t
    ELSE LET mem == Head(members)
             t1  == IF ToLower(mem.key) = "a"
                    THEN IF mem.val.t = "string" THEN [t EXCEPT !.A = mem.val.s]
                         ELSE IF mem.val.t = "null" THEN t
                         ELSE [t EXCEPT !.err = "*json.UnmarshalTypeError"]
                    ELSE t
         IN  DecodeTarget(t1, Tail(members))

\* Decode that takes text that is not JSON for the end of the stream.
DecodeInvalidAsEnd(body, a) ==
    CASE body.readErr /\ body.text = "canceled" -> [A |-> a, err |-> "context canceled"]
      [] body.readErr /\ body.text # "canceled" -> [A |-> a, err |-> "unexpected EOF"]
      [] body.text \in {"empty", "invalid"} -> [A |-> a, err |-> "EOF"]
      [] body.root.t = "object" -> DecodeTarget([A |-> a, err |-> "nil"], body.root.m)
      [] body.root.t = "null"   -> [A |-> a, err |-> "nil"]
      [] OTHER                  -> [A |-> a, err |-> "*json.UnmarshalTypeError"]

\* json.NewDecoder(body).Decode(v): the destination after the decode and the
\* error returned.
Decode(body, a) ==
    CASE body.readErr /\ body.text = "canceled" -> [A |-> a, err |-> "context canceled"]
      [] body.readErr /\ body.text # "canceled" -> [A |-> a, err |-> "unexpected EOF"]
      [] body.text = "empty"   -> [A |-> a, err |-> "EOF"]
      [] body.text = "invalid" -> [A |-> a, err |-> "*json.SyntaxError"]
      [] body.root.t = "object" -> DecodeTarget([A |-> a, err |-> "nil"], body.root.m)
      [] body.root.t = "null"   -> [A |-> a, err |-> "nil"]
      [] OTHER                  -> [A |-> a, err |-> "*json.UnmarshalTypeError"]

\* The io.EOF of an empty body returned as it is.
DoErrorKeepsEOF(derr) == derr

\* Lines 528-533: the error Do returns for the error derr of Decode; the
\* io.EOF of an empty body is no error.
DoError(derr) == IF derr = "EOF" THEN "nil" ELSE derr

\* Lines 524-538: the body of a successful answer goes to the destination;
\* Do returns and the deferred Close runs.
Consume(p) ==
    /\ pc[p] = "body"
    /\ pc' = [pc EXCEPT ![p] = "done"]
    /\ resp' = [resp EXCEPT ![p] = Closed(@)]
    /\ CASE dst[p].kind = "nil" ->
              /\ ret' = [ret EXCEPT ![p] = [resp |-> "response", err |-> "nil"]]
              /\ UNCHANGED dst
         [] dst[p].kind = "writer" ->
              /\ dst' = [dst EXCEPT ![p].sink = Append(@, resp[p].Body)]
              /\ ret' = [ret EXCEPT ![p] = [resp |-> "response", err |-> "nil"]]
         [] OTHER ->
              LET d == Decode(resp[p].Body, dst[p].A) IN
              /\ dst' = [dst EXCEPT ![p].A = d.A]
              /\ ret' = [ret EXCEPT ![p] =
                      [resp |-> "response", err |-> DoError(d.err)]]
    /\ UNCHANGED <<api, stamp, req, ctx, logger, logs, rate, mu, clock, calls, arg, before, wire, err>>

\* The caller drops the results of its call and is free to call again.
Finish(p) ==
    /\ pc[p] = "done"
    /\ pc' = [pc EXCEPT ![p] = "idle"]
    /\ arg' = [arg EXCEPT ![p] = NilDest]
    /\ dst' = [dst EXCEPT ![p] = NilDest]
    /\ before' = [before EXCEPT ![p] = ZeroRate]
    /\ wire' = [wire EXCEPT ![p] = NoResponse]
    /\ resp' = [resp EXCEPT ![p] = NoResponse]
    /\ err' = [err EXCEPT ![p] = NoError]
    /\ ret' = [ret EXCEPT ![p] = NoReturn]
    /\ req' = [req EXCEPT ![p] = NoCall]
    /\ ctx' = [ctx EXCEPT ![p] = "live"]
    /\ UNCHANGED <<api, stamp, logger, logs, rate, mu, clock, calls>>

\* Time passes: now() returns a later instant.
Tick ==
    /\ clock < 1000 + MaxTicks
    /\ clock' = clock + 1
    /\ UNCHANGED <<api, stamp, req, ctx, logger, logs, rate, mu, calls, pc, arg, dst, before, wire, resp, err, ret>>

\* The caller cancels the context of its call while Do runs.  The transport
\* aborts the exchange: a body that Do has not read yet either was buffered
\* whole before the abort, or fails at its next read.
Cancel(p) ==
    /\ pc[p] \notin {"idle", "done"}
    /\ ctx[p] = "live"
    /\ ctx' = [ctx EXCEPT ![p] = "canceled"]
    /\ \E cut \in BOOLEAN :
          resp' = IF cut /\ pc[p] \in {"check", "body"}
                  THEN [resp EXCEPT ![p].Body = CanceledBody]
                  ELSE resp
    /\ UNCHANGED <<api, stamp, req, logger, logs, rate, mu, clock, calls, pc, arg, dst,
                   before, wire, err, ret>>

\* The body shared by the endpoint methods: the request is built; when
\* NewRequest fails its error is returned and Do is not called; otherwise
\* Do is called with the request and a nil destination.
Issue(p, op, fid, id, method, u, body) ==
    LET made == NewRequest(api, method, u, body) IN
    /\ pc[p] = "idle"
    /\ calls < MaxCalls
    /\ calls' = calls + 1
    /\ req' = [req EXCEPT ![p] =
            [op |-> op, fid |-> fid, id |-> id, method |-> method, url |-> u, body |-> body,
             req |-> made.req, err |-> made.err]]
    /\ before' = [before EXCEPT ![p] = rate]
    /\ IF made.err # "nil"
       THEN /\ pc' = [pc EXCEPT ![p] = "done"]
            /\ ret' = [ret EXCEPT ![p] = [resp |-> "nil", err |-> made.err]]
       ELSE /\ pc' = [pc EXCEPT ![p] = "send"]
            /\ UNCHANGED ret
    /\ arg' = [arg EXCEPT ![p] = NilDest]
    /\ dst' = [dst EXCEPT ![p] = NilDest]
    /\ UNCHANGED <<api, stamp, ctx, logger, logs, rate, mu, clock, wire, resp, err>>

\* A caller builds a request of its own with NewRequest and hands it to Do.
Request(p, method, u, body) == Issue(p, "NewRequest", 0, 0, method, u, body)

Kick(p, fid, cid) == Issue(p, "Kick", fid, cid, DELETE, MemberPath(fid, cid), NilBody)

Move(p, fid, cid, role) ==
    Issue(p, "Move", fid, cid, PUT, MemberPath(fid, cid), StructBody("role", role))

DeleteSquad(p, fid, sid) == Issue(p, "DeleteSquad", fid, sid, DELETE, SquadPath(fid, sid), NilBody)

RenameSquad(p, fid, sid, name) ==
    Issue(p, "RenameSquad", fid, sid, PUT, SquadPath(fid, sid), NameBody(name))

DeleteWing(p, fid, wid) == Issue(p, "DeleteWing", fid, wid, DELETE, WingPath(fid, wid), NilBody)

RenameWing(p, fid, wid, name) ==
    Issue(p, "RenameWing", fid, wid, PUT, WingPath(wid, wid), NameBody(name))

\* json.Unmarshal(data, &ts): the text held in stamp is decoded into the
\* Timestamp held in stamp.
Unmarshal ==
    /\ stamp.err = "none"
    /\ LET res == UnmarshalTimestamp(stamp.t, stamp.data) IN
       stamp' = [stamp EXCEPT !.t = res.t, !.err = res.err]
    /\ UNCHANGED <<api, req, ctx, logger, logs, rate, mu, clock, calls, pc, arg, dst,
                   before, wire, resp, err, ret>>

\* One caller, every input.
Next ==
    \/ \E p \in SeqCallers, d \in Dests : Call(p, d)
    \/ \E p \in SeqCallers, terr \in TransportErrors : TransportFail(p, terr)
    \/ \E p \in SeqCallers, r \in Responses : TransportRespond(p, r)
    \/ \E p \in SeqCallers : Check(p)
    \/ \E p \in SeqCallers : Lock(p)
    \/ \E p \in SeqCallers : StoreRemaining(p)
    \/ \E p \in SeqCallers : StoreReset(p)
    \/ \E p \in SeqCallers : Unlock(p)
    \/ \E p \in SeqCallers : Consume(p)
    \/ \E p \in SeqCallers : Finish(p)
    \/ Tick

Spec == Init /\ [][Next]_vars

\* Every caller, each making one call, on the responses ConcResponses.
NextConc ==
    \/ \E p \in Callers : Call(p, NilDest)
    \/ \E p \in Callers, terr \in TransportErrors : TransportFail(p, terr)
    \/ \E p \in Callers, r \in ConcResponses : TransportRespond(p, r)
    \/ \E p \in Callers : Check(p)
    \/ \E p \in Callers : Lock(p)
    \/ \E p \in Callers : StoreRemaining(p)
    \/ \E p \in Callers : StoreReset(p)
    \/ \E p \in Callers : Unlock(p)
    \/ \E p \in Callers : Consume(p)
    \/ Tick

SpecConc == Init /\ [][NextConc]_vars

\* The responses of the other specifications: a failure and two successes,
\* one of them with text that is not JSON.
FewResponses ==
    {r \in Responses :
        /\ HeaderGet(r.Header, headerErrorRateRemaining) = <<"6", "0">>
        /\ \/ r.StatusCode = 400 /\ r.Body = JsonBody(JObj(<<Member("error", JStr("some error"))>>))
           \/ r.StatusCode = 200 /\ r.Body = JsonBody(JObj(<<Member("A", JStr("a"))>>))
           \/ r.StatusCode = 200 /\ r.Body = TextBody}

\* One caller whose context may be canceled while its call runs.
NextCancel ==
    \/ \E p \in SeqCallers, d \in Dests : Call(p, d)
    \/ \E p \in SeqCallers : Cancel(p)
    \/ \E p \in SeqCallers : TransportFail(p, "context canceled")
    \/ \E p \in SeqCallers, r \in FewResponses : TransportRespond(p, r)
    \/ \E p \in SeqCallers : Check(p)
    \/ \E p \in SeqCallers : Lock(p)
    \/ \E p \in SeqCallers : StoreRemaining(p)
    \/ \E p \in SeqCallers : StoreReset(p)
    \/ \E p \in SeqCallers : Unlock(p)
    \/ \E p \in SeqCallers : Consume(p)
    \/ \E p \in SeqCallers : Finish(p)

SpecCancel == Init /\ [][NextCancel]_vars

\* The state after construction of any of the Clients.
InitBuild ==
    /\ api \in Clients
    /\ stamp = NoStamp
    /\ req = [p \in Callers |-> NoCall]
    /\ ctx = [p \in Callers |-> "live"]
    /\ logger = "nil"
    /\ logs = [std |-> <<>>, custom |-> <<>>]
    /\ rate = ZeroRate
    /\ mu = 0
    /\ clock = 1000
    /\ calls = 0
    /\ pc = [p \in Callers |-> "idle"]
    /\ arg = [p \in Callers |-> NilDest]
    /\ dst = [p \in Callers |-> NilDest]
    /\ before = [p \in Callers |-> ZeroRate]
    /\ wire = [p \in Callers |-> NoResponse]
    /\ resp = [p \in Callers |-> NoResponse]
    /\ err = [p \in Callers |-> NoError]
    /\ ret = [p \in Callers |-> NoReturn]

\* One caller that builds requests, of its own or through the endpoint
\* methods of Fleets, and dispatches them.
NextBuild ==
    \/ \E p \in SeqCallers, method \in Methods, u \in URLTexts, body \in RequestBodies :
          Request(p, method, u, body)
    \/ \E p \in SeqCallers, fid \in IDs, cid \in IDs : Kick(p, fid, cid)
    \/ \E p \in SeqCallers, fid \in IDs, cid \in IDs : Move(p, fid, cid, "squad_member")
    \/ \E p \in SeqCallers, fid \in IDs, sid \in IDs : DeleteSquad(p, fid, sid)
    \/ \E p \in SeqCallers, fid \in IDs, sid \in IDs : RenameSquad(p, fid, sid, "alpha")
    \/ \E p \in SeqCallers, fid \in IDs, wid \in IDs : DeleteWing(p, fid, wid)
    \/ \E p \in SeqCallers, fid \in IDs, wid \in IDs : RenameWing(p, fid, wid, "alpha")
    \/ \E p \in SeqCallers : TransportFail(p, "dial tcp: connection refused")
    \/ \E p \in SeqCallers, r \in FewResponses : TransportRespond(p, r)
    \/ \E p \in SeqCallers : Check(p)
    \/ \E p \in SeqCallers : Lock(p)
    \/ \E p \in SeqCallers : StoreRemaining(p)
    \/ \E p \in SeqCallers : StoreReset(p)
    \/ \E p \in SeqCallers : Unlock(p)
    \/ \E p \in SeqCallers : Consume(p)
    \/ \E p \in SeqCallers : Finish(p)

SpecBuild == InitBuild /\ [][NextBuild]_vars

\* A Timestamp holding any of Timestamps and a text of TimestampTexts to decode.
InitTime ==
    /\ api = NewClient
    /\ \E data \in TimestampTexts, t \in Timestamps :
          stamp = [data |-> data, t0 |-> t, t |-> t, err |-> "none"]
    /\ req = [p \in Callers |-> NoCall]
    /\ ctx = [p \in Callers |-> "live"]
    /\ logger = "nil"
    /\ logs = [std |-> <<>>, custom |-> <<>>]
    /\ rate = ZeroRate
    /\ mu = 0
    /\ clock = 1000
    /\ calls = 0
    /\ pc = [p \in Callers |-> "idle"]
    /\ arg = [p \in Callers |-> NilDest]
    /\ dst = [p \in Callers |-> NilDest]
    /\ before = [p \in Callers |-> ZeroRate]
    /\ wire = [p \in Callers |-> NoResponse]
    /\ resp = [p \in Callers |-> NoResponse]
    /\ err = [p \in Callers |-> NoError]
    /\ ret = [p \in Callers |-> NoReturn]

NextTime == Unmarshal

SpecTime == InitTime /\ [][NextTime]_vars

\* ----------------------------------------------------------------- claims

\* C1: a Do call that obtained a response returns a *Error exactly when the
\* status the transport returned is outside [200,299]; 200 and 299 are
\* success, 199 and 300 are failures.
C1_StatusClassification ==
    \A p \in Callers :
        /\ pc[p] = "body" => wire[p].StatusCode \in 200..299
        /\ pc[p] \in {"lock", "store", "store2", "unlock"} => wire[p].StatusCode \notin 200..299
        /\ pc[p] = "done" /\ ret[p].resp = "response" =>
               (ret[p].err = "*Error" <=> wire[p].StatusCode \notin 200..299)

\* A call answered with status 299 has returned without error.
C1_Witness ==
    \E p \in Callers :
        pc[p] = "done" /\ wire[p].StatusCode = 299 /\ ret[p].err = "nil"

\* C2: a Do call answered with a status outside [200,299] returns the
\* response wrapper with that status and a *Error whose HTTPStatusCode is
\* that status; the Rate State is then the Rate of that *Error, and it was
\* stored with the mutex held.
C2_FailureReturn ==
    \A p \in Callers :
        /\ pc[p] \in {"store", "store2", "unlock"} => mu = p
        /\ pc[p] = "done" /\ wire[p].terr = "" /\ wire[p].StatusCode \notin 200..299 =>
               /\ ret[p] = [resp |-> "response", err |-> "*Error"]
               /\ resp[p].StatusCode = wire[p].StatusCode
               /\ err[p].HTTPStatusCode = wire[p].StatusCode
               /\ rate = err[p].Rate

\* C3: a Do call whose transport failed returns no response wrapper and
\* the error of the transport itself, and the Rate State is what it was
\* when Do was called.
C3_TransportFailure ==
    \A p \in Callers :
        pc[p] = "done" /\ wire[p].terr # "" =>
            /\ ret[p] = [resp |-> "nil", err |-> wire[p].terr]
            /\ rate = before[p]

\* A transport failure after an earlier failing exchange has set the Rate
\* State.
C3_Witness ==
    \E p \in Callers :
        /\ pc[p] = "done"
        /\ wire[p].terr = "context canceled"
        /\ rate # ZeroRate

\* C4: when every caller is quiescent and two or more calls have returned
\* a *Error, the Rate State is the whole snapshot of one of these calls
\* (never Remaining of one and Reset of another), and it is not the Rate
\* State from before the calls when every snapshot differs from that.
C4_NoTornNoLostUpdate ==
    LET failed == {p \in Callers : pc[p] = "done" /\ ret[p].err = "*Error"} IN
    (/\ \A p \in Callers : pc[p] \in {"idle", "done"}
     /\ Cardinality(failed) >= 2)
        => /\ \E p \in failed : rate = err[p].Rate
           /\ (\A p \in failed : err[p].Rate # ZeroRate) => rate # ZeroRate

\* Two calls have returned *Errors whose snapshots differ in both fields.
C4_Witness ==
    \E p, q \in Callers :
        /\ pc[p] = "done" /\ ret[p].err = "*Error"
        /\ pc[q] = "done" /\ ret[q].err = "*Error"
        /\ err[p].Rate.Remaining # err[q].Rate.Remaining
        /\ err[p].Rate.Reset # err[q].Rate.Reset
        /\ err[p].Rate # ZeroRate /\ err[q].Rate # ZeroRate

\* C5 as stated: after every Do call that obtained a response, 2xx or not,
\* the Rate State is the snapshot parsed from the headers of that response.
C5_WrittenAfterEveryExchange ==
    \A p \in Callers :
        pc[p] = "done" /\ wire[p].terr = "" =>
            \E t \in Instants : rate = parseRate(wire[p], t)

\* C5 as amended: after a Do call answered with a status outside [200,299]
\* the Rate State is the Rate carried by the *Error the call returned; a
\* Do call answered with a status in [200,299] leaves the Rate State as it
\* was when Do was called.
C5_WrittenOnFailureOnly ==
    \A p \in Callers :
        pc[p] = "done" /\ wire[p].terr = "" =>
            IF wire[p].StatusCode \in 200..299
            THEN rate = before[p]
            ELSE ret[p].err = "*Error" /\ rate = err[p].Rate

\* A 2xx answer that carries rate headers has left the Rate State of an
\* earlier failure in place.
C5_Witness ==
    \E p \in Callers :
        /\ pc[p] = "done"
        /\ wire[p].StatusCode = 200
        /\ HeaderGet(wire[p].Header, headerErrorRateRemaining) = <<"6", "0">>
        /\ rate # ZeroRate
        /\ rate.Remaining # 60

\* C7: a Do call that obtained a response has closed its body exactly once
\* when it returns, whatever the path (API error, byte sink, decode, empty
\* body, decode error, nil destination); a call whose transport failed
\* closes nothing; no body is closed before Do returns.
C7_BodyClosedOnce ==
    \A p \in Callers :
        /\ pc[p] # "done" => resp[p].closes = 0
        /\ pc[p] = "done" /\ wire[p].terr = "" => resp[p].closes = 1
        /\ pc[p] = "done" /\ wire[p].terr # "" => resp[p].closes = 0

\* A call that ended in a decode error has closed the body once.
C7_Witness ==
    \E p \in Callers :
        /\ pc[p] = "done"
        /\ ret[p].err = "*json.SyntaxError"
        /\ resp[p].closes = 1

\* C8: a 2xx answer with no body bytes and a decode destination makes Do
\* return the response wrapper and no error, with the destination as passed.
C8_EmptyBodyLeavesDestination ==
    \A p \in Callers :
        (/\ pc[p] = "done"
         /\ wire[p].terr = ""
         /\ wire[p].StatusCode \in 200..299
         /\ wire[p].Body = EmptyBody
         /\ arg[p].kind = "target")
            => ret[p] = [resp |-> "response", err |-> "nil"] /\ dst[p] = arg[p]

\* An empty 200 answer was decoded into a destination holding "old".
C8_Witness ==
    \E p \in Callers :
        /\ pc[p] = "done"
        /\ wire[p].StatusCode = 200
        /\ wire[p].Body = EmptyBody
        /\ arg[p] = TargetDest("old")
        /\ dst[p].A = "old"
        /\ ret[p].err = "nil"

\* C9: the Rate of a *Error built at instant T has Remaining equal to the
\* number in the remaining-calls header (0 when the header is absent or no
\* number) and Reset equal to T + d for every number d in the reset-delay
\* header (the zero instant when the header is absent or no number).  The
\* headers are taken as parseRate finds them in the response.
C9_RateFromHeaders ==
    \A p \in Callers :
        pc[p] = "done" /\ ret[p].err = "*Error" =>
            LET numbers == (<<"6", "0">> :> 60) @@ (<<"4", "2">> :> 42)
                           @@ (<<"7">> :> 7) @@ (<<"9">> :> 9) @@ (<<"0">> :> 0)
                rem == resp[p].Header["X-Esi-Error-Limit-Remain"]
                res == resp[p].Header["X-Esi-Error-Limit-Reset"]
            IN  /\ err[p].Rate.Remaining = IF rem \in DOMAIN numbers THEN numbers[rem] ELSE 0
                /\ err[p].Rate.Reset = IF res \in DOMAIN numbers
                                       THEN err[p].at + numbers[res]
                                       ELSE ZeroTime

C11_CanceledReturnsCancellation ==
    \A p \in Callers :
        pc[p] = "done" /\ ctx[p] = "canceled" => ret[p].err = "context canceled"

\* C12: a request built by NewRequest has the scheme and the host of the
\* Client's BaseURL, and a path below the path of BaseURL, whatever the url
\* argument was (a relative path, an absolute URL, a "//host/..." reference).
C12_RequestStaysOnBase ==
    \A p \in Callers :
        req[p].op = "NewRequest" /\ req[p].err = "nil" =>
            LET u    == req[p].req.URL
                base == api.BaseURL
            IN  /\ u.Scheme # "" /\ u.Host # ""
                /\ u.Scheme = base.Scheme
                /\ u.Host = base.Host
                /\ Len(u.Path) >= Len(base.Path)
                /\ SubSeq(u.Path, 1, Len(base.Path)) = base.Path

\* C13: NewRequest returns a nil request and an error exactly when the url
\* does not parse (a *url.Error), the body holds a type JSON cannot encode
\* (a *json.UnsupportedTypeError) or the method is no token (an "invalid
\* method" error), and then the caller gets that error without a call of
\* the transport; in every other case it returns a request and no error.
C13_BuildErrors ==
    \A p \in Callers :
        req[p].op = "NewRequest" =>
            LET badURL    == req[p].url \in {<<":">>, <<"invalid", "%">>}
                badBody   == req[p].body = MapBody
                badMethod == \E i \in DOMAIN req[p].method : req[p].method[i] = " "
            IN  /\ req[p].err # "nil" <=> (badURL \/ badBody \/ badMethod)
                /\ badURL => req[p].err \in {"*url.Error: missing protocol scheme",
                                             "*url.Error: invalid URL escape"}
                /\ ~badURL /\ badBody => req[p].err = "*json.UnsupportedTypeError"
                /\ ~badURL /\ ~badBody /\ badMethod => req[p].err = "net/http: invalid method"
                /\ req[p].err # "nil" =>
                       /\ req[p].req = NilRequest
                       /\ pc[p] = "done"
                       /\ wire[p] = NoResponse
                       /\ ret[p] = [resp |-> "nil", err |-> req[p].err]
                /\ req[p].err = "nil" => ~req[p].req.isNil

\* NewRequest was called with a malformed method and with arguments that
\* are otherwise in order, and has returned the nil request.
C13_Witness ==
    \E p \in Callers :
        /\ req[p].op = "NewRequest"
        /\ req[p].method = <<"I", "N", " ", "M">>
        /\ req[p].url = <<".">>
        /\ req[p].body = NameBody("pascal")
        /\ req[p].err = "net/http: invalid method"
        /\ req[p].req.isNil

\* C14: Do returns a nil error only when every step of the exchange
\* succeeded: the transport answered, the status is in [200,299], and the
\* body went into the destination whole: decoded without error (or empty)
\* for a decode target, read to its end for a byte sink.
C14_NoSwallowedFailure ==
    \A p \in Callers :
        pc[p] = "done" /\ ret[p].err = "nil" =>
            /\ wire[p].terr = ""
            /\ wire[p].StatusCode \in 200..299
            /\ arg[p].kind = "target" =>
                   wire[p].Body = EmptyBody \/ Decode(wire[p].Body, arg[p].A).err = "nil"
            /\ arg[p].kind = "writer" => ~wire[p].Body.readErr

\* C15: on a 2xx answer, a byte sink receives the body as it is and
\* nothing is decoded, also when the body is not JSON; a decode target is
\* decoded into, and text that is not JSON makes Do return the
\* *json.SyntaxError with the response wrapper; with a nil destination Do
\* returns success without reading the body, also when reading would fail.
C15_DestinationKinds ==
    \A p \in Callers :
        pc[p] = "done" /\ wire[p].terr = "" /\ wire[p].StatusCode \in 200..299 =>
            /\ ret[p].resp = "response"
            /\ arg[p].kind = "nil" => ret[p].err = "nil" /\ dst[p] = arg[p]
            /\ arg[p].kind = "writer" =>
                   /\ ret[p].err = "nil"
                   /\ dst[p].sink = <<wire[p].Body>>
                   /\ dst[p].A = arg[p].A
            /\ arg[p].kind = "target" =>
                   /\ dst[p].sink = <<>>
                   /\ wire[p].Body = TextBody =>
                          ret[p].err = "*json.SyntaxError" /\ dst[p] = arg[p]
                   /\ wire[p].Body = JsonBody(JObj(<<Member("A", JStr("a"))>>)) =>
                          ret[p].err = "nil" /\ dst[p].A = "a"
                   /\ wire[p].Body = JsonBody(JObj(<<Member("error", JNum(5))>>)) =>
                          ret[p].err = "nil" /\ dst[p] = arg[p]

\* A byte sink has received text that is not JSON.
C15_Witness ==
    \E p \in Callers :
        /\ pc[p] = "done"
        /\ wire[p].StatusCode = 200
        /\ wire[p].Body = TextBody
        /\ arg[p] = WriterDest
        /\ dst[p].sink = <<TextBody>>
        /\ ret[p].err = "nil"

\* C16: the Rate State is the zero Rate as long as no call has failed; it
\* changes only in the locked stores of a failing call; and when a failing
\* call has made its stores, the Rate State is the snapshot of that call,
\* whatever it was before.  A call that ends with a transport error
\* changes nothing.
C16_LastWriterWins ==
    /\ []((\A p \in Callers : pc[p] \notin {"store", "store2", "unlock"} /\ ret[p].err # "*Error")
            => rate = ZeroRate)
    /\ [][/\ \A p \in Callers :
                pc[p] = "store2" /\ pc'[p] = "unlock" => rate' = err[p].Rate
          /\ rate' # rate => \E p \in Callers : pc[p] \in {"store", "store2"} /\ mu = p
          /\ \A p \in Callers : pc[p] = "send" /\ pc'[p] = "done" => rate' = rate]_vars

\* Two calls have failed with different snapshots, and the Rate State is
\* the snapshot of the first caller: its stores came last.
C16_Witness ==
    \E p, q \in Callers :
        /\ p < q
        /\ pc[p] = "done" /\ ret[p].err = "*Error"
        /\ pc[q] = "done" /\ ret[q].err = "*Error"
        /\ err[p].Rate # err[q].Rate
        /\ err[q].Rate # ZeroRate
        /\ rate = err[p].Rate

\* C17: classifying a 2xx answer with a non-empty warning header appends
\* one line with the header's value to the Client's Error logger when one
\* is set, and to the standard logger otherwise, and the answer counts as
\* a success; classifying any other answer logs nothing; no other step of
\* Do logs.
C17_WarningLoggedOnce ==
    [][/\ \A p \in Callers :
            pc[p] = "check" /\ pc'[p] # "check" =>
                LET v == wire[p].Header["Warning"] IN
                IF wire[p].StatusCode \in 200..299 /\ v # <<>>
                THEN /\ pc'[p] = "body"
                     /\ IF logger = "nil"
                        THEN logs' = [logs EXCEPT !.std = Append(@, v)]
                        ELSE logs' = [logs EXCEPT !.custom = Append(@, v)]
                ELSE logs' = logs
       /\ logs' # logs => \E p \in Callers : pc[p] = "check" /\ pc'[p] = "body"]_vars

\* A 200 answer with a warning header has put one line into the Client's
\* own logger, and Do has returned without error.
C17_Witness ==
    \E p \in Callers :
        /\ pc[p] = "done"
        /\ logger = "custom"
        /\ wire[p].StatusCode = 200
        /\ wire[p].Header["Warning"] = <<"2", "9", "9">>
        /\ logs = [std |-> <<>>, custom |-> << <<"2", "9", "9">> >>]
        /\ ret[p].err = "nil"

\* C18: decoding a JSON value that is not a string in the RFC 3339 format
\* (another string, a number of any length, null, true, false) into a
\* Timestamp returns a *time.ParseError and leaves the Timestamp as it was;
\* decoding text that is not JSON returns a *json.SyntaxError.
C18_BadInputIsParseError ==
    stamp.err # "none" =>
        LET b       == stamp.data
            isTime  == /\ Len(b) >= 2 /\ b[1] = Quote /\ b[Len(b)] = Quote
                       /\ TimeParse(SubSeq(b, 2, Len(b) - 1)).err = "nil"
        IN  CASE ~IsJSONText(b) -> stamp.err = "*json.SyntaxError" /\ stamp.t = stamp.t0
              [] IsJSONText(b) /\ ~isTime -> stamp.err = "*time.ParseError" /\ stamp.t = stamp.t0
              [] OTHER -> stamp.err = "nil"

\* C19: the *Error of a failed call, the response it points to and the Rate
\* State after the call are what they would be for any other body in the
\* same response (same status, same headers, classified at the same
\* instant): only the message depends on the body.
C19_BodyOnlySetsMessage ==
    \A p \in Callers :
        pc[p] = "done" /\ ret[p].err = "*Error" =>
            \A b \in Bodies :
                LET other == makeError([wire[p] EXCEPT !.Body = b], err[p].at) IN
                /\ err[p].HTTPStatusCode = other.e.HTTPStatusCode
                /\ err[p].Rate = other.e.Rate
                /\ err[p].Response = "r" /\ other.e.Response = "r"
                /\ resp[p].StatusCode = wire[p].StatusCode
                /\ resp[p].Header = wire[p].Header
                /\ rate = other.e.Rate

\* C20: the request of an endpoint method with a fleet id fid and a member,
\* squad or wing id has the verb of the operation and the path
\* v1/fleets/{fid}/{members|squads|wings}/{id}/ below the path of BaseURL.
C20_EndpointAddressesItsArguments ==
    \A p \in Callers :
        req[p].op \in {"Kick", "Move", "DeleteSquad", "RenameSquad", "DeleteWing", "RenameWing"} =>
            LET kind == CASE req[p].op \in {"Kick", "Move"}               -> "members"
                          [] req[p].op \in {"DeleteSquad", "RenameSquad"} -> "squads"
                          [] OTHER                                        -> "wings"
                verb == IF req[p].op \in {"Kick", "DeleteSquad", "DeleteWing"}
                        THEN DELETE ELSE PUT
            IN  /\ req[p].err = "nil"
                /\ req[p].req.Method = verb
                /\ req[p].req.URL.Path =
                       api.BaseURL.Path \o <<"v1", "/", "fleets", "/", ToString(req[p].fid), "/",
                                              kind, "/", ToString(req[p].id), "/">>

====
